---- MODULE Spec2Model ----
(***************************************************************************)
(* A model of SiPANN/SiP.py: the parameter grid (cartesian_product), the   *)
(* straight / bent waveguide and evanescent coupler primitives, and the    *)
(* port wiring of the ring resonators.                                     *)
(*                                                                         *)
(* Python values are records tagged by "type".  An ndarray is its shape    *)
(* and its C-ordered flat data.  A call ends in [kind |-> "return", ...]   *)
(* or [kind |-> "raise", exc |-> <exception name>].  Complex amplitudes    *)
(* are kept symbolic: a matrix entry is zero, a coupler amplitude (x or y) *)
(* or a propagation phase given by the names multiplied in its exponent.   *)
(***************************************************************************)
EXTENDS Integers, Sequences, FiniteSets, TLC

VARIABLES fn, args, pc, loc, result

vars == <<fn, args, pc, loc, result>>

\* Longest axis / wavelength sweep drawn as an input.
MaxLen == 2

\* Most axes handed to cartesian_product (straightWaveguide hands it three).
MaxAxes == 3

\* The scalar values the inputs are drawn from.
Vals == {1, 2}

----------------------------------------------------------------------------
(* numpy helpers *)

RECURSIVE Prod(_)
Prod(dims) == IF dims = <<>> THEN 1 ELSE Head(dims) * Prod(Tail(dims))

RECURSIVE SeqsUpTo(_, _)
SeqsUpTo(S, n) ==
  IF n = 0 THEN {<<>>}
  ELSE SeqsUpTo(S, n - 1) \cup {Append(s, v) : s \in {t \in SeqsUpTo(S, n - 1) : Len(t) = n - 1}, v \in S}

Front(s) == SubSeq(s, 1, Len(s) - 1)

\* The multi-index (0-based) of flat position f (0-based) in a C-ordered
\* array of shape dims: the last index varies fastest.
RECURSIVE UnravelC(_, _)
UnravelC(f, dims) ==
  IF dims = <<>> THEN <<>>
  ELSE Append(UnravelC(f \div dims[Len(dims)], Front(dims)), f % dims[Len(dims)])

\* A mis-ordered variant: the first index varies fastest.
RECURSIVE UnravelF(_, _)
UnravelF(f, dims) ==
  IF dims = <<>> THEN <<>>
  ELSE <<f % Head(dims)>> \o UnravelF(f \div Head(dims), Tail(dims))

Unravel(f, dims) == UnravelC(f, dims)

Raise(e) == [kind |-> "raise", exc |-> e]
Return(v) == [kind |-> "return", value |-> v]
NoneValue == [type |-> "NoneType"]

Scalar(v) == [type |-> "float", val |-> v]
NdArray(shape, data) == [type |-> "ndarray", shape |-> shape, data |-> data]
PyList(items) == [type |-> "list", items |-> items]

\* np.squeeze: drop every axis of length one; the data are untouched.  A
\* one-element array therefore becomes 0-dimensional (shape <<>>).
np_squeeze(a) == NdArray(SelectSeq(a.shape, LAMBDA d : d # 1), a.data)

\* np.array([x]) for a Python scalar or a Python list x.
np_array_of(x) ==
  IF x.type = "list" THEN NdArray(<<1, Len(x.items)>>, x.items)
  ELSE NdArray(<<1>>, <<x.val>>)

np_size(a) == Prod(a.shape)

----------------------------------------------------------------------------
(* cartesian_product *)

\* arr[i1, ..., in, c] after the loop "arr[..., i] = a": column c is axis c,
\* broadcast along every other axis.
arrAt(arrays, idx) ==
  LET c == idx[Len(arrays) + 1] + 1
  IN  arrays[c].data[idx[c] + 1]

GridDims(arrays) == [i \in 1..Len(arrays) |-> arrays[i].shape[1]] \o <<Len(arrays)>>

\* arr filled and reshaped to (-1, la); -1 resolves to the product of the
\* axis lengths, zero when an axis is empty.
ProductArray(arrays) ==
  LET la    == Len(arrays)
      dims  == GridDims(arrays)
      total == Prod(dims)
  IN  Return(NdArray(<<total \div la, la>>,
                     [f \in 1..total |-> arrAt(arrays, Unravel(f - 1, dims))]))

\* A variant that rejects an empty axis.
cartesian_product_nonempty(arrays) ==
  IF \E i \in 1..Len(arrays) : arrays[i].shape = <<>> THEN Raise("TypeError")
  ELSE IF \E i \in 1..Len(arrays) : Len(arrays[i].shape) # 1 THEN Raise("ValueError")
  ELSE IF \E i \in 1..Len(arrays) : arrays[i].shape[1] = 0 THEN Raise("InvalidInputKind")
  ELSE ProductArray(arrays)

\* len(a) of a 0-d array raises TypeError; np.ix_ raises ValueError for an
\* argument that is not 1-D.
cartesian_product(arrays) ==
  IF \E i \in 1..Len(arrays) : arrays[i].shape = <<>> THEN Raise("TypeError")
  ELSE IF \E i \in 1..Len(arrays) : Len(arrays[i].shape) # 1 THEN Raise("ValueError")
  ELSE ProductArray(arrays)

\* Row r (0-based) of a 2-D array.
Row(a, r) == [c \in 1..a.shape[2] |-> a.data[r * a.shape[2] + c]]

----------------------------------------------------------------------------
(* straightWaveguide *)

\* Number of modal outputs of the straight-waveguide network (TE0..TM2).
NumModes == 6

\* The trained network is opaque: its value for one input row and one output
\* column is an uninterpreted term.  d is 0 for ANN.output and the requested
\* derivative order for ANN.differentiate(INPUT, d=(k,0,derivative)).
ANN_straightReal(row, col, d) ==
  [net |-> "STRAIGHT_SWEEP_REALS", row |-> row, col |-> col, d |-> d]

\* "Santize the input": an ndarray is squeezed, anything else is wrapped.
Sanitize(x) == IF x.type = "ndarray" THEN np_squeeze(x) ELSE np_array_of(x)

\* OUTPUT, one row of NumModes columns per row of INPUT (both branches of
\* "if derivative is None").
NetOutput(INPUT, derivative) ==
  [r \in 1..INPUT.shape[1] |->
     [m \in 1..NumModes |-> ANN_straightReal(Row(INPUT, r - 1), m - 1, derivative)]]

Column(OUTPUT, m) == [r \in 1..Len(OUTPUT) |-> OUTPUT[r][m]]

\* np.reshape(flat, (I,J,K)) in C order, as nested sequences t[i][j][k].
ReshapeC(flat, size) ==
  [i \in 1..size[1] |-> [j \in 1..size[2] |-> [k \in 1..size[3] |->
     flat[((i - 1) * size[2] + (j - 1)) * size[3] + k]]]]

\* A mis-ordered variant: the first index varies fastest.
ReshapeF(flat, size) ==
  [i \in 1..size[1] |-> [j \in 1..size[2] |-> [k \in 1..size[3] |->
     flat[((k - 1) * size[2] + (j - 1)) * size[1] + i]]]]

np_reshape(flat, size) == ReshapeC(flat, size)

straightWaveguide(wavelength, width, thickness, derivative) ==
  LET wl == Sanitize(wavelength)
      wd == Sanitize(width)
      th == Sanitize(thickness)
      INPUT == cartesian_product(<<wl, wd, th>>)
  IN  IF INPUT.kind = "raise" THEN INPUT
      ELSE LET OUTPUT == NetOutput(INPUT.value, derivative)
               tensorSize == <<np_size(wl), np_size(wd), np_size(th)>>
           IN  Return([type |-> "tuple",
                       tensorSize |-> tensorSize,
                       OUTPUT |-> OUTPUT,
                       items |-> [m \in 1..NumModes |->
                                    np_reshape(Column(OUTPUT, m), tensorSize)]])

----------------------------------------------------------------------------
(* S-matrices of the primitives *)

Zero == [amp |-> "0"]

\* exp(1j*2*pi*<product of names>/wavelength).
Exp(names) == [amp |-> "exp", factors |-> names, over |-> "wavelength"]

\* The coupler amplitudes: x (bar) and y (cross).
X == [amp |-> "x"]
Y == [amp |-> "y"]

\* The value of an array expression at frequency point f.
At(term, f) == [term |-> term, at |-> f]

\* S = np.zeros((N,p,p)) followed by the assignments S[:,i,j] = v, in order:
\* an entry holds the last value assigned to it, zero if there is none.
Assigned(N, p, assignments) ==
  [f \in 1..N |-> [i \in 0..(p - 1) |-> [j \in 0..(p - 1) |->
     LET hits == {n \in 1..Len(assignments) :
                    assignments[n][1] = i /\ assignments[n][2] = j}
     IN  IF hits = {} THEN Zero
         ELSE At(assignments[CHOOSE n \in hits : \A m \in hits : m <= n][3], f)]]]

SMatrix(N, p, assignments) ==
  [type |-> "ndarray", shape |-> <<N, p, p>>, S |-> Assigned(N, p, assignments)]

\* Names bound at module level.
ModuleGlobals ==
  {"import_nn", "np", "rf", "pkg_resources", "gapReal_FILE", "ANN_gapReal",
   "straightReal_FILE", "ANN_straightReal", "cartesian_product",
   "straightWaveguide", "straightWaveguide_S", "bentWaveguide", "evWGcoupler",
   "racetrackRR", "rectangularRR"}

\* A name that is neither a local of the function nor a module global raises
\* NameError when it is read.
Unbound(names, locals) == names \ (locals \cup ModuleGlobals)

\* The names multiplied in the exponent of straightWaveguide_S.
StraightExponent == {"radius", "neff", "angle"}

StraightLocals ==
  {"wavelength", "width", "thickness", "gap", "length",
   "TE0", "TE1", "TE2", "TM0", "TM1", "TM2", "neff", "N", "S"}

straightWaveguide_S(wavelength, width, thickness) ==
  LET modes == straightWaveguide(wavelength, width, thickness, 0)
  IN  IF modes.kind = "raise" THEN modes
      ELSE IF wavelength.type # "ndarray" THEN Raise("AttributeError")
      ELSE IF wavelength.shape = <<>> THEN Raise("IndexError")
      ELSE IF Unbound(StraightExponent \cup {"np", "wavelength"}, StraightLocals) # {}
           THEN Raise("NameError")
      ELSE Return(SMatrix(wavelength.shape[1], 2,
                          <<<<0, 1, Exp(StraightExponent)>>, <<1, 0, Exp(StraightExponent)>>>>))

\* The names multiplied in the exponent of bentWaveguide.
BentExponent == {"radius", "neff", "angle"}

BentLocals ==
  {"wavelength", "radius", "width", "thickness", "gap", "angle", "neff", "N", "S"}

bentWaveguide(wavelength) ==
  IF wavelength.shape = <<>> THEN Raise("IndexError")
  ELSE IF Unbound(BentExponent \cup {"np", "wavelength"}, BentLocals) # {}
       THEN Raise("NameError")
  ELSE Return(SMatrix(wavelength.shape[1], 2,
                      <<<<0, 1, Exp(BentExponent)>>, <<1, 0, Exp(BentExponent)>>>>))

\* A variant with the amplitudes of "Row 3" exchanged.
CouplerRow3Swapped ==
  << <<0, 1, X>>, <<0, 3, Y>>, <<1, 0, X>>, <<1, 2, Y>>,
     <<2, 1, X>>, <<2, 3, Y>>, <<3, 0, Y>>, <<3, 2, X>> >>

\* "Row 1" .. "Row 4" of evWGcoupler: S[:,i,j] = amplitude.
CouplerAssignments ==
  << <<0, 1, X>>, <<0, 3, Y>>, <<1, 0, X>>, <<1, 2, Y>>,
     <<2, 1, Y>>, <<2, 3, X>>, <<3, 0, Y>>, <<3, 2, X>> >>

evWGcoupler(wavelength) ==
  IF wavelength.shape = <<>> THEN Raise("IndexError")
  ELSE Return(SMatrix(wavelength.shape[1], 4, CouplerAssignments))

----------------------------------------------------------------------------
(* cascading: which original port ends up where *)

\* A network during assembly: its frequency points, its external ports in
\* order, each the (use, port) of the primitive it comes from, and the pairs
\* of original ports joined so far.
Network(N, ports, joined) ==
  [type |-> "network", N |-> N, ports |-> ports, joined |-> joined]

\* One use of a primitive S-matrix as an operand of connect_s.
Use(matrix, name) ==
  Network(matrix.shape[1], [p \in 1..matrix.shape[2] |-> <<name, p - 1>>], {})

\* s without its elements at the 0-based positions in drop.
Without(s, drop) ==
  LET keep == {p \in 1..Len(s) : (p - 1) \notin drop}
      nth(n) == CHOOSE p \in keep : Cardinality({q \in keep : q < p}) = n - 1
  IN  [n \in 1..Cardinality(keep) |-> s[nth(n)]]

innerconnect_s(A, k, l) ==
  IF k > Len(A.ports) - 1 \/ l > Len(A.ports) - 1 \/ k = l
  THEN Raise("PortIndexOutOfRange")
  ELSE Return(Network(A.N, Without(A.ports, {k, l}),
                      A.joined \cup {{A.ports[k + 1], A.ports[l + 1]}}))

connect_s(A, k, B, l) ==
  IF k > Len(A.ports) - 1 \/ l > Len(B.ports) - 1 THEN Raise("PortIndexOutOfRange")
  ELSE IF A.N # B.N THEN Raise("DimensionMismatch")
  ELSE innerconnect_s(Network(A.N, A.ports \o B.ports, A.joined \cup B.joined),
                      k, Len(A.ports) + l)

\* The port indices racetrackRR passes to connect_s / innerconnect_s.
FirstBendAt == 2
SecondBendAt == 3
SecondCouplerAt == 2
LoopFrom == 2

\* A variant closing the loop one port further.
LoopToNext == LoopFrom + 2

LoopTo == 3

----------------------------------------------------------------------------
(* inputs *)

Axes == SeqsUpTo(Vals, MaxLen)

\* 1-D arrays of every length 0..MaxLen.
Arrays1D == {NdArray(<<Len(d)>>, d) : d \in Axes}

\* Non-empty arrays of shape (n,) and (1,n).
Sweeps ==
  {NdArray(<<Len(d)>>, d) : d \in Axes \ {<<>>}}
    \cup {NdArray(<<1, Len(d)>>, d) : d \in Axes \ {<<>>}}

\* What a caller may pass for wavelength, width or thickness: a bare scalar,
\* an array or a Python list.
ArrayLike ==
  {Scalar(v) : v \in Vals} \cup Sweeps \cup {PyList(d) : d \in Axes \ {<<>>}}

\* derivative: 0 stands for None.
Derivatives == {0, 1}

Functions ==
  {"cartesian_product", "straightWaveguide", "straightWaveguide_S",
   "bentWaveguide", "evWGcoupler", "racetrackRR", "rectangularRR"}

ArgsOf(f) ==
  CASE f = "cartesian_product" ->
         {[arrays |-> s] : s \in SeqsUpTo(Arrays1D, MaxAxes) \ {<<>>}}
    [] f = "straightWaveguide" ->
         [wavelength : ArrayLike, width : ArrayLike, thickness : ArrayLike,
          derivative : Derivatives]
    [] f = "straightWaveguide_S" ->
         [wavelength : ArrayLike, width : ArrayLike, thickness : ArrayLike]
    [] f \in {"bentWaveguide", "evWGcoupler"} ->
         [wavelength : {NdArray(<<Len(d)>>, d) : d \in Axes \ {<<>>}}]
    [] f \in {"racetrackRR", "rectangularRR"} ->
         [wavelength : Sweeps]

----------------------------------------------------------------------------
(* the calls *)

NoResult == [kind |-> "none"]

\* The locals of racetrackRR before it runs.
NoLocals ==
  [wavelength |-> NoneValue, N |-> 0, couplerS |-> NoneValue,
   bentS |-> NoneValue, S |-> NoneValue]

Init ==
  /\ fn \in Functions
  /\ args \in ArgsOf(fn)
  /\ pc = "call"
  /\ loc = NoLocals
  /\ result = NoResult

Call_cartesian_product ==
  /\ pc = "call" /\ fn = "cartesian_product"
  /\ result' = cartesian_product(args.arrays)
  /\ pc' = "done"
  /\ UNCHANGED <<fn, args, loc>>

Call_straightWaveguide ==
  /\ pc = "call" /\ fn = "straightWaveguide"
  /\ result' = straightWaveguide(args.wavelength, args.width, args.thickness,
                                  args.derivative)
  /\ pc' = "done"
  /\ UNCHANGED <<fn, args, loc>>

Call_straightWaveguide_S ==
  /\ pc = "call" /\ fn = "straightWaveguide_S"
  /\ result' = straightWaveguide_S(args.wavelength, args.width, args.thickness)
  /\ pc' = "done"
  /\ UNCHANGED <<fn, args, loc>>

Call_bentWaveguide ==
  /\ pc = "call" /\ fn = "bentWaveguide"
  /\ result' = bentWaveguide(args.wavelength)
  /\ pc' = "done"
  /\ UNCHANGED <<fn, args, loc>>

Call_evWGcoupler ==
  /\ pc = "call" /\ fn = "evWGcoupler"
  /\ result' = evWGcoupler(args.wavelength)
  /\ pc' = "done"
  /\ UNCHANGED <<fn, args, loc>>

\* rectangularRR: the body is comments and a bare "return".
rectangularRR(wavelength) == Return(NoneValue)

Call_rectangularRR ==
  /\ pc = "call" /\ fn = "rectangularRR"
  /\ result' = rectangularRR(args.wavelength)
  /\ pc' = "done"
  /\ UNCHANGED <<fn, args, loc>>

\* One statement of racetrackRR that assigns S: go on with the new S, or
\* leave with the exception.
Cascade(from, to, r) ==
  /\ pc = from /\ fn = "racetrackRR"
  /\ IF r.kind = "raise"
     THEN /\ result' = r /\ pc' = "done" /\ loc' = loc
     ELSE /\ loc' = [loc EXCEPT !.S = r.value] /\ pc' = to /\ result' = result
  /\ UNCHANGED <<fn, args>>

\* wavelength = np.squeeze(wavelength); N = wavelength.shape[0]
RR_Sanitize ==
  /\ pc = "call" /\ fn = "racetrackRR"
  /\ LET wl == np_squeeze(args.wavelength)
     IN  IF wl.shape = <<>>
         THEN /\ result' = Raise("IndexError") /\ pc' = "done" /\ loc' = loc
         ELSE /\ loc' = [loc EXCEPT !.wavelength = wl, !.N = wl.shape[1]]
              /\ pc' = "primitives" /\ result' = result
  /\ UNCHANGED <<fn, args>>

\* couplerS = evWGcoupler(...); bentS = bentWaveguide(..., np.pi)
RR_Primitives ==
  /\ pc = "primitives" /\ fn = "racetrackRR"
  /\ LET c == evWGcoupler(loc.wavelength)
         b == bentWaveguide(loc.wavelength)
     IN  IF c.kind = "raise" \/ b.kind = "raise"
         THEN /\ result' = (IF c.kind = "raise" THEN c ELSE b)
              /\ pc' = "done" /\ loc' = loc
         ELSE /\ loc' = [loc EXCEPT !.couplerS = c.value, !.bentS = b.value]
              /\ pc' = "cascade1" /\ result' = result
  /\ UNCHANGED <<fn, args>>

\* S = rf.connect_s(couplerS, 2, bentS, 0)
RR_Cascade1 ==
  Cascade("cascade1", "cascade2",
          connect_s(Use(loc.couplerS, "coupler1"), FirstBendAt, Use(loc.bentS, "bend1"), 0))

\* S = rf.connect_s(S, 3, bentS, 0)
RR_Cascade2 ==
  Cascade("cascade2", "cascade3",
          connect_s(loc.S, SecondBendAt, Use(loc.bentS, "bend2"), 0))

\* S = rf.connect_s(S, 2, couplerS, 0)
RR_Cascade3 ==
  Cascade("cascade3", "inner",
          connect_s(loc.S, SecondCouplerAt, Use(loc.couplerS, "coupler2"), 0))

\* S = rf.innerconnect_s(S, 2,3)
RR_Inner ==
  Cascade("inner", "return", innerconnect_s(loc.S, LoopFrom, LoopTo))

\* return S
RR_Return ==
  /\ pc = "return" /\ fn = "racetrackRR"
  /\ result' = Return(loc.S)
  /\ pc' = "done"
  /\ UNCHANGED <<fn, args, loc>>

Next ==
  \/ Call_cartesian_product
  \/ Call_straightWaveguide
  \/ Call_straightWaveguide_S
  \/ Call_bentWaveguide
  \/ Call_evWGcoupler
  \/ Call_rectangularRR
  \/ RR_Sanitize
  \/ RR_Primitives
  \/ RR_Cascade1
  \/ RR_Cascade2
  \/ RR_Cascade3
  \/ RR_Inner
  \/ RR_Return

Spec == Init /\ [][Next]_vars

----------------------------------------------------------------------------
(* properties *)

Done(f) == fn = f /\ pc = "done"

\* The 1-D data of a sanitized input: the scalar itself, or the array's data.
AxisData(x) == IF x.type = "float" THEN <<x.val>> ELSE Sanitize(x).data

RECURSIVE Concat(_)
Concat(ss) == IF ss = <<>> THEN <<>> ELSE Head(ss) \o Concat(Tail(ss))

\* A tensor t[i][j][k] read out in C order.
Flatten(t) == Concat([i \in 1..Len(t) |-> Concat(t[i])])

\* C1: in racetrackRR, the second connect_s (connect(S1, 3, bentS, 0)) joins
\* port 0 of the second bend to the original port 3 of the coupler.
C1_SecondBendOnCouplerPort3 ==
  (fn = "racetrackRR" /\ pc = "cascade3")
    => {<<"bend2", 0>>, <<"coupler1", 3>>} \in loc.S.joined

\* C2: for every wavelength array of N points racetrackRR returns a matrix of
\* N frequency points and 4 ports; the composite has 4, 4, 6 and 4 ports after
\* the three connect_s calls and the innerconnect_s, and no step fails on a
\* port index.
C2_ShapeN44 ==
  fn = "racetrackRR" =>
    /\ pc = "cascade2" => Len(loc.S.ports) = 4
    /\ pc = "cascade3" => Len(loc.S.ports) = 4
    /\ pc = "inner" => Len(loc.S.ports) = 6
    /\ pc = "return" => Len(loc.S.ports) = 4
    /\ pc = "done" =>
         /\ result.kind = "return"
         /\ result.value.N = np_size(args.wavelength)
         /\ Len(result.value.ports) = 4

\* C3: for non-empty axes A, B, C the product has |A|*|B|*|C| rows of length
\* 3, and row (i*|B| + j)*|C| + k is (A[i], B[j], C[k]): the last axis varies
\* fastest and every combination appears once.
C3_RowMajorProduct ==
  (Done("cartesian_product") /\ Len(args.arrays) = 3
     /\ \A n \in 1..3 : args.arrays[n].shape[1] > 0) =>
    LET A == args.arrays[1].data
        B == args.arrays[2].data
        C == args.arrays[3].data
    IN  /\ result.kind = "return"
        /\ result.value.shape = <<Len(A) * Len(B) * Len(C), 3>>
        /\ Len(result.value.data) = Len(A) * Len(B) * Len(C) * 3
        /\ \A i \in 0..(Len(A) - 1), j \in 0..(Len(B) - 1), k \in 0..(Len(C) - 1) :
             Row(result.value, (i * Len(B) + j) * Len(C) + k)
               = <<A[i + 1], B[j + 1], C[k + 1]>>

C3_Witness ==
  /\ Done("cartesian_product")
  /\ args.arrays = <<NdArray(<<2>>, <<1, 2>>), NdArray(<<2>>, <<2, 1>>), NdArray(<<2>>, <<1, 2>>)>>
  /\ result.kind = "return"
  /\ Row(result.value, 5) = <<2, 2, 2>>

\* C4: for every valid input straightWaveguide_S returns a 2-port S-matrix
\* with zero diagonal whose two off-diagonal elements are
\* exp(i*2*pi*neff*length/wavelength), with no radius or angle term.  Stated
\* for the plainest valid input: a 1-D sweep of at least two wavelengths,
\* scalar width and thickness.
C4_PhaseOverLength ==
  (Done("straightWaveguide_S")
     /\ args.wavelength.type = "ndarray" /\ Len(args.wavelength.shape) = 1
     /\ args.wavelength.shape[1] >= 2
     /\ args.width.type = "float" /\ args.thickness.type = "float") =>
    /\ result.kind = "return"
    /\ result.value.shape = <<args.wavelength.shape[1], 2, 2>>
    /\ \A f \in 1..args.wavelength.shape[1] :
         /\ result.value.S[f][0][0] = Zero /\ result.value.S[f][1][1] = Zero
         /\ result.value.S[f][0][1] = At(Exp({"neff", "length"}), f)
         /\ result.value.S[f][1][0] = At(Exp({"neff", "length"}), f)

\* C5: rectangularRR returns a 4-port S-matrix (the racetrack wiring with two
\* straight side segments).
C5_RectangularFourPort ==
  Done("rectangularRR") =>
    /\ result.kind = "return"
    /\ result.value.type = "network"
    /\ Len(result.value.ports) = 4
    /\ result.value.N = np_size(args.wavelength)

\* C6: for each of wavelength, width and thickness a bare scalar v and a
\* one-element array [v] are treated identically: both give six tensors of
\* size 1 along that axis, holding the network's value for that v.
C6_ScalarLikeOneElement ==
  LET OneElement(x) == x.type = "float" \/ (x.type = "ndarray" /\ x.shape = <<1>>)
      ins == <<args.wavelength, args.width, args.thickness>>
  IN  (Done("straightWaveguide") /\ \A n \in 1..3 : OneElement(ins[n])) =>
        /\ result.kind = "return"
        /\ result.value.tensorSize = <<1, 1, 1>>
        /\ \A m \in 1..NumModes :
             result.value.items[m]
               = <<<<<<ANN_straightReal(<<AxisData(ins[1])[1], AxisData(ins[2])[1],
                                          AxisData(ins[3])[1]>>, m - 1, args.derivative)>>>>>>

C9_CouplerLayout ==
  LET bar   == {<<0, 1>>, <<1, 0>>, <<2, 3>>, <<3, 2>>}
      cross == {<<0, 3>>, <<3, 0>>, <<1, 2>>, <<2, 1>>}
      Layout(M) ==
        /\ M.shape[2] = 4 /\ M.shape[3] = 4
        /\ \A f \in 1..M.shape[1] : \A i \in 0..3, j \in 0..3 :
             /\ M.S[f][i][j] = M.S[f][j][i]
             /\ i = j => M.S[f][i][j] = Zero
             /\ <<i, j>> \in bar => M.S[f][i][j] = At(X, f)
             /\ <<i, j>> \in cross => M.S[f][i][j] = At(Y, f)
             /\ <<i, j>> \notin bar \cup cross => M.S[f][i][j] = Zero
  IN  /\ Done("evWGcoupler") =>
           /\ result.kind = "return"
           /\ result.value.shape[1] = args.wavelength.shape[1]
           /\ Layout(result.value)
      /\ (fn = "racetrackRR" /\ loc.couplerS # NoneValue) => Layout(loc.couplerS)

C9_Witness ==
  /\ Done("evWGcoupler")
  /\ result.kind = "return"
  /\ result.value.shape = <<2, 4, 4>>
  /\ result.value.S[2][1][2] = At(Y, 2)

\* C10: the four external ports of racetrackRR's result are, in order, ports
\* 0 and 1 of the first coupler use and ports 2 and 3 of the second; every
\* port of both bends has been joined to another port, and no original port
\* is joined more than once.
C10_ExternalPorts ==
  (Done("racetrackRR") /\ result.kind = "return") =>
    LET net == result.value
        all == UNION net.joined
    IN  /\ net.ports = <<<<"coupler1", 0>>, <<"coupler1", 1>>,
                         <<"coupler2", 2>>, <<"coupler2", 3>>>>
        /\ \A b \in {"bend1", "bend2"}, p \in {0, 1} : <<b, p>> \in all
        /\ \A pair \in net.joined : Cardinality(pair) = 2
        /\ \A q \in all : Cardinality({pair \in net.joined : q \in pair}) = 1
        /\ \A n \in 1..Len(net.ports) : net.ports[n] \notin all
        /\ Cardinality(net.joined) = 4

C10_Witness ==
  /\ Done("racetrackRR")
  /\ result.kind = "return"
  /\ result.value.N = 2
  /\ {<<"bend2", 1>>, <<"coupler2", 1>>} \in result.value.joined

====
